---- MODULE Spec2Model ----
(***************************************************************************)
(* Model of the Articut client (src/src/articut.rs): a client value that   *)
(* holds credentials and a lazily constructed HTTP handle, and one call    *)
(* that serializes a payload, POSTs it, deserializes the body and maps the *)
(* server's msg text onto the Error enumeration.                           *)
(*                                                                         *)
(* Strings are TLA+ strings; str::contains is computed on them character   *)
(* by character.  A JSON value is a record tagged with its type; a         *)
(* response body is raw text (not JSON), a stream that breaks while it is  *)
(* read, a JSON object given as a function from its keys to JSON values,   *)
(* or a JSON array.  JSON numbers are integers; an f32 is m * 2^e.         *)
(***************************************************************************)
EXTENDS Integers, Sequences, FiniteSets, TLC

VARIABLES
    life,       \* per client value: "unborn", "live", "moved" (into a call), "dropped"
    client,     \* the Option<reqwest::Client> field: "None" or "Some"
    username,   \* the borrowed username
    api_key,    \* the borrowed API key
    pc,         \* position of the call: "idle", "send", "json", "done"
    entry,      \* which public method the caller used: "none", "parse", "parse_full_options"
    text,       \* the text argument of the call
    opt,        \* the RequestOptions the call runs with
    payload,    \* the JSON payload handed to the POST
    posts,      \* number of POSTs issued by the call
    handles,    \* number of reqwest::Client values constructed for this client value
    body,       \* the response body received
    result      \* what the call returned

vars == <<life, client, username, api_key, pc, entry, text, opt, payload,
          posts, handles, body, result>>

----------------------------------------------------------------------------
(* Bounds of the model *)

\* number of client values the caller constructs
MaxClients == 2
\* longest run of filler characters put before and after a phrase in a message
MaxPad == 1

Clients == 1..MaxClients

----------------------------------------------------------------------------
(* Strings *)

\* str::contains(pat) for a non-empty pattern
contains(s, pat) ==
    \E i \in 1..(Len(s) - Len(pat) + 1) : SubSeq(s, i, i + Len(pat) - 1) = pat

\* position of the first occurrence of pat in s (0 when there is none)
find(s, pat) ==
    IF contains(s, pat)
    THEN CHOOSE i \in 1..(Len(s) - Len(pat) + 1) :
            /\ SubSeq(s, i, i + Len(pat) - 1) = pat
            /\ \A j \in 1..(i - 1) : SubSeq(s, j, j + Len(pat) - 1) # pat
    ELSE 0

----------------------------------------------------------------------------
(* Error::from_str: the ordered substring table *)

Some(e) == [some |-> TRUE, v |-> e]
Nothing == [some |-> FALSE]

from_str_exact(msg) ==
    IF msg = "Specified version does not exist" THEN Some("InvalidVersion")
    ELSE IF msg = "Specified level does not exist" THEN Some("InvalidLevel")
    ELSE IF msg = "Authtication failed" THEN Some("BadAuth")
    ELSE IF msg = "Invalid Articut key" THEN Some("InvalidAPIKey")
    ELSE IF msg = "Your input_str is too long" THEN Some("InputTextTooLong")
    ELSE IF msg = "Insufficient word count balance" THEN Some("NotEnoughQuota")
    ELSE IF msg = "Internal server error" THEN Some("InternalServerError")
    ELSE IF msg = "Invalid content_type" THEN Some("InvalidContentType")
    ELSE IF msg = "Invalid arguments" THEN Some("InvalidArguments")
    ELSE IF msg = "UserDefinedDICT Parsing" THEN Some("UserDictionaryParseError")
    ELSE IF msg = "Maximum UserDefinedDICT file size" THEN Some("UserDictionarySizeExceed")
    ELSE IF msg = "Requests per minute exceeded" THEN Some("RateLimited")
    ELSE Nothing

from_str_fixed_typo(msg) ==
    IF contains(msg, "Specified version does not exist") THEN Some("InvalidVersion")
    ELSE IF contains(msg, "Specified level does not exist") THEN Some("InvalidLevel")
    ELSE IF contains(msg, "Authentication failed") THEN Some("BadAuth")
    ELSE IF contains(msg, "Invalid Articut key") THEN Some("InvalidAPIKey")
    ELSE IF contains(msg, "Your input_str is too long") THEN Some("InputTextTooLong")
    ELSE IF contains(msg, "Insufficient word count balance") THEN Some("NotEnoughQuota")
    ELSE IF contains(msg, "Internal server error") THEN Some("InternalServerError")
    ELSE IF contains(msg, "Invalid content_type") THEN Some("InvalidContentType")
    ELSE IF contains(msg, "Invalid arguments") THEN Some("InvalidArguments")
    ELSE IF contains(msg, "UserDefinedDICT Parsing") THEN Some("UserDictionaryParseError")
    ELSE IF contains(msg, "Maximum UserDefinedDICT file size") THEN Some("UserDictionarySizeExceed")
    ELSE IF contains(msg, "Requests per minute exceeded") THEN Some("RateLimited")
    ELSE Nothing

\* the arms of the match, as <<phrase, variant>>, in source order
Arms ==
    << <<"Specified version does not exist", "InvalidVersion">>,
       <<"Specified level does not exist", "InvalidLevel">>,
       <<"Authtication failed", "BadAuth">>,
       <<"Invalid Articut key", "InvalidAPIKey">>,
       <<"Your input_str is too long", "InputTextTooLong">>,
       <<"Insufficient word count balance", "NotEnoughQuota">>,
       <<"Internal server error", "InternalServerError">>,
       <<"Invalid content_type", "InvalidContentType">>,
       <<"Invalid arguments", "InvalidArguments">>,
       <<"UserDefinedDICT Parsing", "UserDictionaryParseError">>,
       <<"Maximum UserDefinedDICT file size", "UserDictionarySizeExceed">>,
       <<"Requests per minute exceeded", "RateLimited">> >>

\* a variant of the table that returns the arm whose phrase occurs leftmost
from_str_leftmost(msg) ==
    LET hit == {i \in 1..Len(Arms) : contains(msg, Arms[i][1])}
    IN  IF hit = {} THEN Nothing
        ELSE LET first == CHOOSE i \in hit :
                     \A j \in hit : find(msg, Arms[i][1]) <= find(msg, Arms[j][1])
             IN  Some(Arms[first][2])

from_str(msg) ==
    IF contains(msg, "Specified version does not exist") THEN Some("InvalidVersion")
    ELSE IF contains(msg, "Specified level does not exist") THEN Some("InvalidLevel")
    ELSE IF contains(msg, "Authtication failed") THEN Some("BadAuth")
    ELSE IF contains(msg, "Invalid Articut key") THEN Some("InvalidAPIKey")
    ELSE IF contains(msg, "Your input_str is too long") THEN Some("InputTextTooLong")
    ELSE IF contains(msg, "Insufficient word count balance") THEN Some("NotEnoughQuota")
    ELSE IF contains(msg, "Internal server error") THEN Some("InternalServerError")
    ELSE IF contains(msg, "Invalid content_type") THEN Some("InvalidContentType")
    ELSE IF contains(msg, "Invalid arguments") THEN Some("InvalidArguments")
    ELSE IF contains(msg, "UserDefinedDICT Parsing") THEN Some("UserDictionaryParseError")
    ELSE IF contains(msg, "Maximum UserDefinedDICT file size") THEN Some("UserDictionarySizeExceed")
    ELSE IF contains(msg, "Requests per minute exceeded") THEN Some("RateLimited")
    ELSE Nothing

----------------------------------------------------------------------------
(* Level, Pinyin, RequestOptions and the payload *)

Levels == {"Lv1", "Lv2", "Lv3"}
Pinyins == {"HANYU", "BOPOMOFO"}

\* Serialize for Level without the serde renames
LevelCodeUnrenamed(l) == l

\* #[serde(rename = ...)] on the variants of Level
LevelCode(l) ==
    IF l = "Lv1" THEN "lv1" ELSE IF l = "Lv2" THEN "lv2" ELSE "lv3"

\* Serialize for Pinyin: a unit variant is written as its name
PinyinCode(p) == p

DEFAULT_OPTION_lv1 ==
    [version |-> "latest", level |-> "Lv1", user_dict |-> {},
     opendata_place |-> FALSE, wikidata |-> FALSE, chemical |-> FALSE,
     emoji |-> FALSE, time_ref |-> "", pinyin |-> "BOPOMOFO"]

DEFAULT_OPTION ==
    [version |-> "latest", level |-> "Lv2", user_dict |-> {},
     opendata_place |-> FALSE, wikidata |-> FALSE, chemical |-> FALSE,
     emoji |-> FALSE, time_ref |-> "", pinyin |-> "BOPOMOFO"]

\* Payload with #[serde(flatten)] on opt; a dictionary is a set of <<term, tag>>
Payload(o, t, u, k) ==
    [version |-> o.version,
     level |-> LevelCode(o.level),
     user_defined_dict_file |-> o.user_dict,
     opendata_place |-> o.opendata_place,
     wikidata |-> o.wikidata,
     chemical |-> o.chemical,
     emoji |-> o.emoji,
     time_ref |-> o.time_ref,
     pinyin |-> PinyinCode(o.pinyin),
     input_str |-> t,
     username |-> u,
     api_key |-> k]

NoPayload == [sent |-> FALSE]
NoOption == [set |-> FALSE]

----------------------------------------------------------------------------
(* JSON values and the Response schema *)

\* a JSON value: its type t and, by type, its string s, number n, array a or
\* object o (the others left empty)
JsonValue(t, s, n, a, o) == [t |-> t, s |-> s, n |-> n, a |-> a, o |-> o]
Str(s) == JsonValue("str", s, 0, <<>>, <<>>)
Num(n) == JsonValue("num", "", n, <<>>, <<>>)
Bool(b) == JsonValue(IF b THEN "true" ELSE "false", "", 0, <<>>, <<>>)
Arr(a) == JsonValue("arr", "", 0, a, <<>>)
Obj(f) == JsonValue("obj", "", 0, <<>>, f)
Null == JsonValue("null", "", 0, <<>>, <<>>)

\* a body that is not JSON, a body whose stream breaks, a JSON object, a JSON array
Text(s) == [kind |-> "text", raw |-> s]
Aborted == [kind |-> "aborted"]
Json(f) == [kind |-> "json", obj |-> f]
JsonArray(a) == [kind |-> "array", arr |-> a]
NoBody == [kind |-> "none"]

\* the variant named by a code: the three renamed codes, anything else is an
\* unknown variant
LevelFromCode(s) ==
    IF s = "lv1" THEN Some("Lv1")
    ELSE IF s = "lv2" THEN Some("Lv2")
    ELSE IF s = "lv3" THEN Some("Lv3")
    ELSE Nothing

\* Deserialize for Level: the code as a string, or the externally tagged form
\* {"<code>": null}
DeLevel(j) ==
    IF j.t = "str" THEN LevelFromCode(j.s)
    ELSE IF j.t = "obj" /\ Cardinality(DOMAIN j.o) = 1
         THEN LET k == CHOOSE x \in DOMAIN j.o : TRUE
              IN  IF j.o[k].t = "null" THEN LevelFromCode(k) ELSE Nothing
    ELSE Nothing

\* the largest integer up to which every integer is an f32
F32Exact == 16777216

RECURSIVE F32Shift(_)
\* the number of low bits an integer a >= 0 loses in the 24-bit significand
F32Shift(a) == IF a < F32Exact THEN 0 ELSE 1 + F32Shift(a \div 2)

RECURSIVE F32Normal(_, _)
\* m * 2^e with m odd (or zero)
F32Normal(m, e) ==
    IF m = 0 THEN [m |-> 0, e |-> 0]
    ELSE IF m % 2 = 0 THEN F32Normal(m \div 2, e + 1)
    ELSE [m |-> m, e |-> e]

\* the f32 nearest to the integer n (ties to even), as m * 2^e
ToF32(n) ==
    LET a == IF n < 0 THEN 0 - n ELSE n
        k == F32Shift(a)
        q == a \div (2 ^ k)
        r == a % (2 ^ k)
        up == k > 0 /\ (2 * r > 2 ^ k \/ (2 * r = 2 ^ k /\ q % 2 = 1))
        f == F32Normal(IF up THEN q + 1 ELSE q, k)
    IN  IF n < 0 THEN [m |-> 0 - f.m, e |-> f.e] ELSE f

IsString(j) == j.t = "str"
IsLevel(j) == DeLevel(j).some
\* the numbers of the model are integers
IsF32(j) == j.t = "num"
\* the numbers of the model are integers, all of them within the range of i32
IsI32(j) == j.t = "num"
IsStringArray(j) == j.t = "arr" /\ \A i \in 1..Len(j.a) : IsString(j.a[i])
\* PosTag { pos: String, text: String }: an object with both keys, or an array
\* of the two fields in their order
IsPosTag(j) ==
    \/ /\ j.t = "obj"
       /\ "pos" \in DOMAIN j.o /\ IsString(j.o["pos"])
       /\ "text" \in DOMAIN j.o /\ IsString(j.o["text"])
    \/ /\ j.t = "arr"
       /\ Len(j.a) = 2
       /\ IsString(j.a[1]) /\ IsString(j.a[2])
IsPosTagArray(j) == j.t = "arr" /\ \A i \in 1..Len(j.a) : IsPosTag(j.a[i])
IsResultObj(j) == j.t = "arr" /\ \A i \in 1..Len(j.a) : IsPosTagArray(j.a[i])

PosTagOf(j) ==
    IF j.t = "obj" THEN [pos |-> j.o["pos"].s, text |-> j.o["text"].s]
    ELSE [pos |-> j.a[1].s, text |-> j.a[2].s]

\* the fields of Response in their order of declaration
SchemaOrder ==
    <<"version", "level", "msg", "exec_time", "result_pos", "result_obj",
      "result_segmentation", "word_count_balance">>

\* the fields a body gives: the keys of an object, or the leading fields of the
\* schema for an array
Fields(b) ==
    IF b.kind = "json" THEN b.obj
    ELSE [key \in {SchemaOrder[i] : i \in 1..Len(b.arr)} |->
            b.arr[CHOOSE i \in 1..Len(SchemaOrder) : SchemaOrder[i] = key]]

\* the body has a form a struct is read from: an object, or an array no longer
\* than the schema
StructForm(b) ==
    \/ b.kind = "json"
    \/ b.kind = "array" /\ Len(b.arr) <= Len(SchemaOrder)

\* a key with #[serde(default)] may be absent; a key that is present must have its type
OptionalOk(o, key, Is(_)) == key \in DOMAIN o => Is(o[key])

\* the Response built from fields that all are present and have their types
ResponseOf(o) ==
    [version |-> o["version"].s,
     level |-> DeLevel(o["level"]).v,
     msg |-> o["msg"].s,
     exec_time |-> ToF32(o["exec_time"].n),
     result_pos |-> [i \in 1..Len(o["result_pos"].a) |-> o["result_pos"].a[i].s],
     result_obj |-> [i \in 1..Len(o["result_obj"].a) |->
                       [k \in 1..Len(o["result_obj"].a[i].a) |->
                           PosTagOf(o["result_obj"].a[i].a[k])]],
     result_segmentation |-> o["result_segmentation"].s,
     word_count_balance |-> o["word_count_balance"].n]

\* the value each field with #[serde(default)] takes when the body leaves it
\* out: Default of String, Level (Lv2), f32, Vec and i32
FieldDefaults ==
    [version |-> Str(""), level |-> Str("lv2"), exec_time |-> Num(0),
     result_pos |-> Arr(<<>>), result_obj |-> Arr(<<>>),
     result_segmentation |-> Str(""), word_count_balance |-> Num(0)]

\* Response with every #[serde(default)] removed: all eight keys are required
DeserializeAllRequired(b) ==
    IF ~StructForm(b) THEN [ok |-> FALSE]
    ELSE LET o == Fields(b) IN
         IF /\ {SchemaOrder[i] : i \in 1..Len(SchemaOrder)} \subseteq DOMAIN o
            /\ IsString(o["version"]) /\ IsLevel(o["level"]) /\ IsString(o["msg"])
            /\ IsF32(o["exec_time"]) /\ IsStringArray(o["result_pos"])
            /\ IsResultObj(o["result_obj"]) /\ IsString(o["result_segmentation"])
            /\ IsI32(o["word_count_balance"])
         THEN [ok |-> TRUE, v |-> ResponseOf(o)]
         ELSE [ok |-> FALSE]

\* Response::deserialize over the body (.json::<Response>())
Deserialize(b) ==
    IF ~StructForm(b) THEN [ok |-> FALSE]
    ELSE LET o == Fields(b) IN
         IF /\ "msg" \in DOMAIN o /\ IsString(o["msg"])
            /\ OptionalOk(o, "version", IsString)
            /\ OptionalOk(o, "level", IsLevel)
            /\ OptionalOk(o, "exec_time", IsF32)
            /\ OptionalOk(o, "result_pos", IsStringArray)
            /\ OptionalOk(o, "result_obj", IsResultObj)
            /\ OptionalOk(o, "result_segmentation", IsString)
            /\ OptionalOk(o, "word_count_balance", IsI32)
         THEN [ok |-> TRUE,
               v |-> ResponseOf([key \in DOMAIN FieldDefaults \cup {"msg"} |->
                                   IF key \in DOMAIN o THEN o[key]
                                   ELSE FieldDefaults[key]])]
         ELSE [ok |-> FALSE]

----------------------------------------------------------------------------
(* Result<Response, Error> *)

Ok(r) == [tag |-> "Ok", res |-> r]
Err(e) == [tag |-> "Err", err |-> e]
Pending == [tag |-> "Pending"]

\* the text of a body as it came over the wire, for a body that is plain text
RawText(b) == IF b.kind = "text" THEN b.raw ELSE ""

\* a variant that consults the message table on the raw body before deserializing
MapResponseRawFirst(b) ==
    LET raw == from_str(RawText(b))
        d == Deserialize(b)
    IN  IF raw.some THEN Err(raw.v)
        ELSE IF ~d.ok THEN Err("NetworkError")
        ELSE LET e == from_str(d.v.msg)
             IN  IF e.some THEN Err(e.v) ELSE Ok(d.v)

\* a variant that refuses a response whose remaining balance is negative
MapResponseStrict(b) ==
    LET d == Deserialize(b)
    IN  IF ~d.ok THEN Err("NetworkError")
        ELSE LET e == from_str(d.v.msg)
             IN  IF e.some THEN Err(e.v)
                 ELSE IF d.v.word_count_balance < 0 THEN Err("NotEnoughQuota")
                 ELSE Ok(d.v)

\* .json::<Response>().await.map_err(Into::into).and_then(|res| from_str(&res.msg)...)
MapResponse(b) ==
    LET d == Deserialize(b)
    IN  IF ~d.ok THEN Err("NetworkError")
        ELSE LET e == from_str(d.v.msg)
             IN  IF e.some THEN Err(e.v) ELSE Ok(d.v)

----------------------------------------------------------------------------
(* Inputs: credentials, texts, options, messages and response bodies *)

Usernames == {"user@example.com"}
ApiKeys == {"k3y"}
Texts == {"", "hello world"}

RECURSIVE Pad(_)
Pad(n) == IF n = 0 THEN "" ELSE "_" \o Pad(n - 1)

\* every option set by the caller to something other than its default
CustomOption ==
    [version |-> "v256", level |-> "Lv3", user_dict |-> {<<"term", "tag">>},
     opendata_place |-> TRUE, wikidata |-> TRUE, chemical |-> TRUE,
     emoji |-> TRUE, time_ref |-> "2020-01-01 00:00:00", pinyin |-> "HANYU"]

Options ==
    {[DEFAULT_OPTION EXCEPT !.level = l, !.pinyin = p] : l \in Levels, p \in Pinyins}
        \cup {CustomOption}

\* one known phrase, with filler before and after it
PaddedMsgs ==
    {Pad(i) \o Arms[a][1] \o Pad(j) : a \in 1..Len(Arms), i \in 0..MaxPad, j \in 0..MaxPad}

\* two known phrases in one message, in either textual order
DoubleMsgs ==
    {Arms[a][1] \o "; " \o Arms[b][1] : a \in 1..Len(Arms), b \in 1..Len(Arms)}

\* messages that hold no phrase of the table: success text, the Display texts of
\* the variants that differ from their phrases, near misses
OtherMsgs ==
    {"", "Success!", "Authentication failed", "authtication failed",
     "Invalid content type", "Your input text is too long",
     "Specified version does not exis", "equests per minute exceeded"}

Msgs == PaddedMsgs \cup DoubleMsgs \cup OtherMsgs

\* a well-formed body with every key of the schema populated
FullObj(m) ==
    [version |-> Str("v256"), level |-> Str("lv3"), msg |-> Str(m),
     exec_time |-> Num(1),
     result_pos |-> Arr(<<Str("<ENTITY_pronoun>I</ENTITY_pronoun>")>>),
     result_obj |-> Arr(<<Arr(<<Obj([pos |-> Str("ENTITY_pronoun"), text |-> Str("I")])>>)>>),
     result_segmentation |-> Str("I"),
     word_count_balance |-> Num(1988)]

SchemaKeys == {SchemaOrder[i] : i \in 1..Len(SchemaOrder)}
DefaultedKeys == SchemaKeys \ {"msg"}

Without(f, K) == [k \in DOMAIN f \ K |-> f[k]]
With(f, key, j) == [k \in DOMAIN f \cup {key} |-> IF k = key THEN j ELSE f[k]]

\* the messages carried by the bodies that vary something other than the message
ProbeMsgs == {"Success!", "Internal server error", "Authentication failed"}

OmittingBodies ==
    {Json(Without(FullObj(m), {k})) : m \in ProbeMsgs, k \in SchemaKeys}
        \cup {Json(Without(FullObj(m), DefaultedKeys)) : m \in ProbeMsgs}
        \cup {Json(Without(FullObj(m), SchemaKeys)) : m \in ProbeMsgs}

AnomalousBodies ==
    {Json(With(FullObj(m), "word_count_balance", Num(n))) :
        m \in ProbeMsgs, n \in {-7, 0, 2147483647}}
        \cup {Json(With(FullObj(m), "status", Bool(FALSE))) : m \in ProbeMsgs}

IllTypedBodies ==
    {Json(With(FullObj(m), "level", Str("lv4"))) : m \in ProbeMsgs}
        \cup {Json(With(FullObj(m), "word_count_balance", Str("1988"))) : m \in ProbeMsgs}
        \cup {Json(With(FullObj(m), "version", Null)) : m \in ProbeMsgs}
        \cup {Json(With(FullObj("Success!"), "msg", j)) : j \in {Null, Num(0)}}
        \cup {Json(With(Without(FullObj("Success!"), {"msg"}),
                        "result_segmentation", Str("Internal server error")))}

NonJsonBodies ==
    {Text(s) : s \in {"", "<html>502 Bad Gateway</html>", "Internal server error",
                      "Requests per minute exceeded", "{\"msg\": \"Invalid arguments\""}}
        \cup {Aborted}

\* the other forms serde reads a unit variant and a struct from, well-formed and not
TaggedLevelBodies ==
    {Json(With(FullObj(m), "level", Obj([lv1 |-> Null]))) : m \in ProbeMsgs}
        \cup {Json(With(FullObj("Success!"), "level", j)) :
                 j \in {Obj([lv1 |-> Num(1)]), Obj([lv4 |-> Null]),
                        Obj([lv1 |-> Null, lv2 |-> Null]), Str("Lv1"), Str("")}}

PosTagArray(a) == Arr(<<Arr(<<Arr(a)>>)>>)
PosTagFormBodies ==
    {Json(With(FullObj(m), "result_obj", PosTagArray(<<Str("ENTITY_pronoun"), Str("I")>>))) :
        m \in ProbeMsgs}
        \cup {Json(With(FullObj("Success!"), "result_obj", PosTagArray(a))) :
                 a \in {<<Str("ENTITY_pronoun")>>,
                        <<Str("ENTITY_pronoun"), Str("I"), Str("I")>>,
                        <<Str("ENTITY_pronoun"), Num(1)>>}}

FullArray(m) == [i \in 1..Len(SchemaOrder) |-> FullObj(m)[SchemaOrder[i]]]
ArrayBodies ==
    {JsonArray(SubSeq(FullArray(m), 1, n)) : m \in ProbeMsgs, n \in 0..Len(SchemaOrder)}
        \cup {JsonArray(Append(FullArray(m), Null)) : m \in ProbeMsgs}

\* execution times at and beyond the integers an f32 holds exactly
RoundedBodies ==
    {Json(With(FullObj("Success!"), "exec_time", Num(n))) :
        n \in {0, -3, F32Exact, F32Exact + 1, F32Exact + 3, 2147483647}}

Bodies ==
    {Json(FullObj(m)) : m \in Msgs} \cup OmittingBodies \cup AnomalousBodies
        \cup IllTypedBodies \cup NonJsonBodies \cup TaggedLevelBodies
        \cup PosTagFormBodies \cup ArrayBodies \cup RoundedBodies

\* the inputs of the runs that interleave several client values
FewTexts == {"hello world"}
FewOptions == {CustomOption}
FewBodies ==
    {Json(FullObj(m)) : m \in {"Success!", "Requests per minute exceeded",
                                "Internal server error"}}
        \cup {Text("<html>502 Bad Gateway</html>")}

----------------------------------------------------------------------------
(* The client value and the call *)

Init ==
    /\ life = [c \in Clients |-> "unborn"]
    /\ client = [c \in Clients |-> "None"]
    /\ username = [c \in Clients |-> ""]
    /\ api_key = [c \in Clients |-> ""]
    /\ pc = [c \in Clients |-> "idle"]
    /\ entry = [c \in Clients |-> "none"]
    /\ text = [c \in Clients |-> ""]
    /\ opt = [c \in Clients |-> NoOption]
    /\ payload = [c \in Clients |-> NoPayload]
    /\ posts = [c \in Clients |-> 0]
    /\ handles = [c \in Clients |-> 0]
    /\ body = [c \in Clients |-> NoBody]
    /\ result = [c \in Clients |-> Pending]

\* Articut::new
new(c, u, k) ==
    /\ life[c] = "unborn"
    /\ life' = [life EXCEPT ![c] = "live"]
    /\ username' = [username EXCEPT ![c] = u]
    /\ api_key' = [api_key EXCEPT ![c] = k]
    /\ client' = [client EXCEPT ![c] = "None"]
    /\ UNCHANGED <<pc, entry, text, opt, payload, posts, handles, body, result>>

\* self.client.get_or_insert_with(|| reqwest::Client::new()): the number of
\* handles constructed by it
Constructed(field) == IF field = "None" THEN 1 ELSE 0

\* parse_full_options up to its first await: self is moved into the call, the
\* handle is taken or constructed, the payload built and the POST sent
begin_call(c, t, o) ==
    /\ life[c] = "live"
    /\ pc[c] = "idle"
    /\ life' = [life EXCEPT ![c] = "moved"]
    /\ handles' = [handles EXCEPT ![c] = @ + Constructed(client[c])]
    /\ client' = [client EXCEPT ![c] = "Some"]
    /\ text' = [text EXCEPT ![c] = t]
    /\ opt' = [opt EXCEPT ![c] = o]
    /\ payload' = [payload EXCEPT ![c] = Payload(o, t, username[c], api_key[c])]
    /\ posts' = [posts EXCEPT ![c] = @ + 1]
    /\ pc' = [pc EXCEPT ![c] = "send"]
    /\ UNCHANGED <<username, api_key, body, result>>

\* Articut::parse
parse(c, t) ==
    /\ begin_call(c, t, DEFAULT_OPTION)
    /\ entry' = [entry EXCEPT ![c] = "parse"]

\* Articut::parse_full_options, called directly
parse_full_options(c, t, o) ==
    /\ begin_call(c, t, o)
    /\ entry' = [entry EXCEPT ![c] = "parse_full_options"]

\* the call returns: self, moved into it, is dropped with its handle
Return(c, r) ==
    /\ result' = [result EXCEPT ![c] = r]
    /\ pc' = [pc EXCEPT ![c] = "done"]
    /\ life' = [life EXCEPT ![c] = "dropped"]
    /\ client' = [client EXCEPT ![c] = "None"]

\* a variant of the failed send that posts the payload again
send_failed_retry(c) ==
    /\ pc[c] = "send"
    /\ IF posts[c] < 2
       THEN /\ posts' = [posts EXCEPT ![c] = @ + 1]
            /\ UNCHANGED <<life, client, pc, result>>
       ELSE Return(c, Err("NetworkError"))
    /\ UNCHANGED <<username, api_key, entry, text, opt, payload, handles, body>>

\* .send().await? fails: the transport error is returned
send_failed(c) ==
    /\ pc[c] = "send"
    /\ Return(c, Err("NetworkError"))
    /\ UNCHANGED <<username, api_key, entry, text, opt, payload, posts, handles, body>>

\* .send().await? yields a response with body b
send_ok(c, b) ==
    /\ pc[c] = "send"
    /\ body' = [body EXCEPT ![c] = b]
    /\ pc' = [pc EXCEPT ![c] = "json"]
    /\ UNCHANGED <<life, client, username, api_key, entry, text, opt, payload,
                   posts, handles, result>>

\* .json::<Response>().await and the mapping of its result
json_done(c) ==
    /\ pc[c] = "json"
    /\ Return(c, MapResponse(body[c]))
    /\ UNCHANGED <<username, api_key, entry, text, opt, payload, posts, handles, body>>

\* one call on one client value, over all inputs
Next ==
    \/ \E u \in Usernames, k \in ApiKeys : new(1, u, k)
    \/ \E t \in Texts : parse(1, t)
    \/ \E t \in Texts, o \in Options : parse_full_options(1, t, o)
    \/ send_failed(1)
    \/ \E b \in Bodies : send_ok(1, b)
    \/ json_done(1)

Spec == Init /\ [][Next]_vars

\* several client values, their calls interleaved
NextClients ==
    \E c \in Clients :
        \/ \E u \in Usernames, k \in ApiKeys : new(c, u, k)
        \/ \E t \in FewTexts : parse(c, t)
        \/ \E t \in FewTexts, o \in FewOptions : parse_full_options(c, t, o)
        \/ send_failed(c)
        \/ \E b \in FewBodies : send_ok(c, b)
        \/ json_done(c)

SpecClients == Init /\ [][NextClients]_vars

----------------------------------------------------------------------------
(* Properties *)

\* the call of c has returned after a body that deserialized
Answered(c) == pc[c] = "done" /\ Deserialize(body[c]).ok

\* the msg text of the body received by c
MsgOf(c) == Fields(body[c])["msg"].s

\* the phrases of the table found in a message, by their place in the table
Found(m) == {i \in 1..Len(Arms) : contains(m, Arms[i][1])}
Earliest(S) == CHOOSE i \in S : \A j \in S : i <= j

\* the variants in the order of the table: bad version, bad level, failed
\* authentication, invalid key, oversized input, exhausted quota, internal server
\* error, bad content type, bad arguments, dictionary parse failure, oversized
\* dictionary, rate limiting
TableOrder ==
    <<"InvalidVersion", "InvalidLevel", "BadAuth", "InvalidAPIKey", "InputTextTooLong",
      "NotEnoughQuota", "InternalServerError", "InvalidContentType", "InvalidArguments",
      "UserDictionaryParseError", "UserDictionarySizeExceed", "RateLimited">>

\* C1 as stated: whenever the body deserializes and its msg contains one of the
\* twelve phrases, at any position, the call returns Err with the variant of that
\* very phrase.
C1_EveryPhraseGivesItsVariant ==
    \A c \in Clients : \A i \in 1..Len(Arms) :
        (Answered(c) /\ contains(MsgOf(c), Arms[i][1]))
            => result[c] = Err(Arms[i][2])

\* C1 as amended: whenever the body deserializes and its msg contains one of the
\* twelve phrases, at any position, the call returns Err with a message-derived
\* variant, never Ok; the variant is that of the phrase unless the msg also
\* contains a phrase that stands earlier in the table.
C1_PhraseGivesErr ==
    \A c \in Clients : \A i \in 1..Len(Arms) :
        (Answered(c) /\ contains(MsgOf(c), Arms[i][1]))
            => /\ result[c].tag = "Err"
               /\ result[c].err \in {Arms[k][2] : k \in 1..Len(Arms)}
               /\ (\A j \in 1..(i - 1) : ~contains(MsgOf(c), Arms[j][1]))
                      => result[c] = Err(Arms[i][2])

\* a phrase in the middle of a message, with text on both sides, has given its variant
C1_Witness ==
    /\ Answered(1)
    /\ MsgOf(1) = "_Requests per minute exceeded_"
    /\ result[1] = Err("RateLimited")

\* C2: whenever the body deserializes and its msg contains none of the twelve
\* phrases, the call returns Ok with the deserialized response: the msg and every
\* field the body gave are carried as deserialized (the execution time as the
\* nearest f32), whatever they hold.
C2_UnknownMessageIsOk ==
    \A c \in Clients :
        (Answered(c) /\ Found(MsgOf(c)) = {})
            => LET o == Fields(body[c])
                   r == result[c]
               IN  /\ r.tag = "Ok"
                   /\ r.res.msg = o["msg"].s
                   /\ "version" \in DOMAIN o => r.res.version = o["version"].s
                   /\ "level" \in DOMAIN o =>
                         IF o["level"].t = "str"
                         THEN LevelCode(r.res.level) = o["level"].s
                         ELSE DOMAIN o["level"].o = {LevelCode(r.res.level)}
                   /\ "exec_time" \in DOMAIN o =>
                         LET n == o["exec_time"].n
                             x == r.res.exec_time
                         IN  /\ (n >= 0 - 16777216 /\ n <= 16777216) => x.m * 2 ^ x.e = n
                             /\ n = 16777217 => x = [m |-> 1, e |-> 24]
                             /\ n = 16777219 => x = [m |-> 4194305, e |-> 2]
                             /\ n = 2147483647 => x = [m |-> 1, e |-> 31]
                   /\ "result_pos" \in DOMAIN o =>
                         /\ Len(r.res.result_pos) = Len(o["result_pos"].a)
                         /\ \A i \in 1..Len(r.res.result_pos) :
                               r.res.result_pos[i] = o["result_pos"].a[i].s
                   /\ "result_obj" \in DOMAIN o =>
                         Len(r.res.result_obj) = Len(o["result_obj"].a)
                   /\ "result_segmentation" \in DOMAIN o =>
                         r.res.result_segmentation = o["result_segmentation"].s
                   /\ "word_count_balance" \in DOMAIN o =>
                         r.res.word_count_balance = o["word_count_balance"].n

\* an unrecognized message with a negative balance has been returned as Ok
C2_Witness ==
    /\ Answered(1)
    /\ MsgOf(1) = "Authentication failed"
    /\ "word_count_balance" \in DOMAIN Fields(body[1])
    /\ Fields(body[1])["word_count_balance"].n = -7
    /\ result[1].tag = "Ok"
    /\ result[1].res.word_count_balance = -7

\* C3: a call whose POST failed, or whose body is not JSON of the response schema,
\* returns NetworkError and no message-derived variant, also when the raw body
\* holds a known phrase.
C3_TransportFailureIsNetworkError ==
    \A c \in Clients :
        (/\ pc[c] = "done"
         /\ \/ body[c].kind \in {"none", "text", "aborted"}
            \/ body[c].kind \in {"json", "array"} /\ ~Deserialize(body[c]).ok)
            => result[c] = Err("NetworkError")

\* a body that is the bare text of a known phrase has been returned as NetworkError
C3_Witness ==
    /\ pc[1] = "done"
    /\ body[1] = Text("Internal server error")
    /\ result[1] = Err("NetworkError")

\* C4 as stated: the first call on a client value leaves the value with the caller,
\* its handle stored, so that a subsequent call on the same value finds the handle
\* and constructs none; at most one handle is constructed per client value.
C4_HandleKeptForSubsequentCall ==
    \A c \in Clients :
        /\ handles[c] <= 1
        /\ pc[c] = "done" => (life[c] = "live" /\ client[c] = "Some")

\* C5: a call issues exactly one POST, whatever its outcome, and once it has
\* returned neither the POST count nor the returned outcome changes.
C5_OnePostOneOutcome ==
    /\ [](\A c \in Clients : /\ posts[c] <= 1
                             /\ pc[c] \in {"send", "json", "done"} => posts[c] = 1)
    /\ [][\A c \in Clients :
            /\ posts[c] = 1 => posts'[c] = 1
            /\ pc[c] = "done" => (pc'[c] = "done" /\ result'[c] = result[c])]_vars

\* a rate-limited call has returned that failure after its single POST
C5_Witness ==
    \E c \in Clients :
        /\ pc[c] = "done"
        /\ posts[c] = 1
        /\ result[c] = Err("RateLimited")

\* C6: a call made through parse runs with version "latest", level 2, an empty
\* dictionary, the four flags false, an empty time reference and BOPOMOFO, and
\* sends the payload parse_full_options builds from these and the text.
C6_ParseUsesDefaults ==
    \A c \in Clients :
        entry[c] = "parse"
            => /\ opt[c] = [version |-> "latest", level |-> "Lv2", user_dict |-> {},
                            opendata_place |-> FALSE, wikidata |-> FALSE,
                            chemical |-> FALSE, emoji |-> FALSE, time_ref |-> "",
                            pinyin |-> "BOPOMOFO"]
               /\ payload[c] = [version |-> "latest", level |-> "lv2",
                                user_defined_dict_file |-> {},
                                opendata_place |-> FALSE, wikidata |-> FALSE,
                                chemical |-> FALSE, emoji |-> FALSE, time_ref |-> "",
                                pinyin |-> "BOPOMOFO", input_str |-> text[c],
                                username |-> username[c], api_key |-> api_key[c]]

\* a call made through parse has sent its payload and returned Ok
C6_Witness ==
    /\ entry[1] = "parse"
    /\ text[1] = "hello world"
    /\ pc[1] = "done"
    /\ result[1].tag = "Ok"

\* C7: the level field of the payload is "lv1" exactly for Lv1, "lv2" exactly for
\* Lv2 and "lv3" exactly for Lv3, and is never anything else.
C7_LevelShortCode ==
    \A c \in Clients :
        pc[c] # "idle"
            => /\ payload[c].level \in {"lv1", "lv2", "lv3"}
               /\ opt[c].level = "Lv1" <=> payload[c].level = "lv1"
               /\ opt[c].level = "Lv2" <=> payload[c].level = "lv2"
               /\ opt[c].level = "Lv3" <=> payload[c].level = "lv3"

\* a call with level Lv1 has sent "lv1"
C7_Witness ==
    /\ pc[1] = "send"
    /\ entry[1] = "parse_full_options"
    /\ opt[1].level = "Lv1"
    /\ payload[1].level = "lv1"

\* C8: when the msg contains two or more phrases, the variant returned is that of
\* the phrase standing first in the table, wherever the phrases stand in the msg.
C8_FirstInTableWins ==
    \A c \in Clients :
        (Answered(c) /\ Cardinality(Found(MsgOf(c))) >= 2)
            => result[c] = Err(TableOrder[Earliest(Found(MsgOf(c)))])

\* the last phrase of the table stood before the first one in the msg, and the
\* first one's variant was returned
C8_Witness ==
    /\ Answered(1)
    /\ MsgOf(1) = "Requests per minute exceeded; Specified version does not exist"
    /\ result[1] = Err("InvalidVersion")

\* C9 as stated: a msg containing "Authtication failed" gives BadAuth, and a msg
\* with "Authentication failed" and no phrase of the table gives Ok.
C9_TypoGivesBadAuth ==
    \A c \in Clients :
        Answered(c)
            => /\ contains(MsgOf(c), "Authtication failed") => result[c] = Err("BadAuth")
               /\ (contains(MsgOf(c), "Authentication failed") /\ Found(MsgOf(c)) = {})
                      => result[c].tag = "Ok"

\* C9 as amended: a msg containing "Authtication failed" and neither of the two
\* phrases that precede it in the table gives BadAuth, and a msg with
\* "Authentication failed" and no phrase of the table gives Ok.
C9_TypoPreserved ==
    \A c \in Clients :
        Answered(c)
            => /\ (/\ contains(MsgOf(c), "Authtication failed")
                   /\ ~contains(MsgOf(c), "Specified version does not exist")
                   /\ ~contains(MsgOf(c), "Specified level does not exist"))
                      => result[c] = Err("BadAuth")
               /\ (contains(MsgOf(c), "Authentication failed") /\ Found(MsgOf(c)) = {})
                      => (result[c].tag = "Ok" /\ result[c].res.msg = MsgOf(c))

\* the correctly spelled text has been returned as Ok
C9_Witness ==
    /\ Answered(1)
    /\ body[1] = Json(FullObj("Authentication failed"))
    /\ result[1].tag = "Ok"

\* C10: a JSON object that is a well-formed body with any of the seven keys other
\* than msg left out deserializes, each omitted field taking its default (level:
\* Lv2), and its msg is matched against the table; a JSON object without the msg
\* key gives NetworkError.
C10_OnlyMsgMandatory ==
    \A c \in Clients :
        (pc[c] = "done" /\ body[c].kind = "json")
            => LET o == body[c].obj
                   r == result[c]
               IN  /\ "msg" \notin DOMAIN o => r = Err("NetworkError")
                   /\ ("msg" \in DOMAIN o
                       /\ o = Without(FullObj(o["msg"].s), SchemaKeys \ DOMAIN o))
                          => /\ r # Err("NetworkError")
                             /\ Found(o["msg"].s) = {} => r.tag = "Ok"
                             /\ Found(o["msg"].s) # {} =>
                                   r = Err(TableOrder[Earliest(Found(o["msg"].s))])
                             /\ r.tag = "Ok" =>
                                   /\ "version" \notin DOMAIN o => r.res.version = ""
                                   /\ "level" \notin DOMAIN o => r.res.level = "Lv2"
                                   /\ "exec_time" \notin DOMAIN o =>
                                         r.res.exec_time = [m |-> 0, e |-> 0]
                                   /\ "result_pos" \notin DOMAIN o => r.res.result_pos = <<>>
                                   /\ "result_obj" \notin DOMAIN o => r.res.result_obj = <<>>
                                   /\ "result_segmentation" \notin DOMAIN o =>
                                         r.res.result_segmentation = ""
                                   /\ "word_count_balance" \notin DOMAIN o =>
                                         r.res.word_count_balance = 0

\* a body without the level key has been returned as Ok with level Lv2
C10_Witness ==
    /\ pc[1] = "done"
    /\ body[1] = Json(Without(FullObj("Success!"), {"level"}))
    /\ result[1].tag = "Ok"
    /\ result[1].res.level = "Lv2"

====
